---- MODULE Spec2Model ----
(***************************************************************************)
(* Model of htmresearch/frameworks/pytorch/mnist_sparse_experiment.py:     *)
(* the MNISTSparseExperiment lifecycle (reset / iterate / finalize), the   *)
(* training loop, the evaluation routine and the noise robustness sweep.   *)
(*                                                                         *)
(* Floating-point values are non-negative multiples of 2^-FracBits held    *)
(* as integers (value * Unit); binary32 and binary64 are modelled with     *)
(* SingleBits and DoubleBits significant bits, round-to-nearest-even.      *)
(***************************************************************************)
EXTENDS Integers, Sequences, FiniteSets, TLC

\* ---------------------------------------------------------------- bounds
MaxIterations == 2
MaxLogInterval == 2
MaxTrainSize == 2
MaxTestSize == 3
SingleBits == 3
DoubleBits == 5
FracBits == 2

\* ------------------------------------------------- floating-point helpers
RECURSIVE Pow2(_)
Pow2(n) == IF n = 0 THEN 1 ELSE 2 * Pow2(n - 1)

RECURSIVE BitLen(_)
BitLen(x) == IF x = 0 THEN 0 ELSE 1 + BitLen(x \div 2)

Unit == Pow2(FracBits)

Min(a, b) == IF a < b THEN a ELSE b

\* a / b rounded to the nearest integer, ties to even (a >= 0, b > 0)
RoundHalfEven(a, b) ==
  LET q == a \div b
      r == a % b
  IN  IF 2 * r < b THEN q
      ELSE IF 2 * r > b THEN q + 1
      ELSE IF q % 2 = 0 THEN q ELSE q + 1

\* spacing of the representable values around magnitude k
Quantum(bits, k) == IF BitLen(k) <= bits THEN 1 ELSE Pow2(BitLen(k) - bits)

\* floating-point addition a + b with `bits` significant bits
FAdd(bits, a, b) ==
  LET q == Quantum(bits, a + b)
  IN  IF q = 1 THEN a + b ELSE q * RoundHalfEven(a + b, q)

\* floating-point division a / n with `bits` significant bits
FDiv(bits, a, n) ==
  LET q == Quantum(bits, a \div n)
  IN  q * RoundHalfEven(a, n * q)

\* --------------------------------------------------------- data loading
\* the orders a shuffling loader can deliver n samples in
AllOrders ==
  [n \in 0..MaxTestSize |->
     {p \in [1..n -> 1..n] : \A i, j \in 1..n : i # j => p[i] # p[j]}]

Orders(n) == AllOrders[n]

\* len(loader): the last batch may be short (drop_last is not set)
NumBatches(n, batch_size) == (n + batch_size - 1) \div batch_size

BatchLen(n, batch_size, k) == Min(batch_size, n - (k - 1) * batch_size)

\* the batches of dataset indices the loader's sampler yields in one pass
\* when it draws the order perm
BatchSampler(n, batch_size, perm) ==
  [k \in 1..NumBatches(n, batch_size) |->
     [i \in 1..BatchLen(n, batch_size, k) |-> perm[(k - 1) * batch_size + i]]]

\* the batches one pass over DataLoader(dataset, batch_size, shuffle=True)
\* yields when the sampler draws the order perm
DataLoader(dataset, batch_size, perm) ==
  [k \in 1..NumBatches(Len(dataset), batch_size) |->
     [i \in 1..BatchLen(Len(dataset), batch_size, k) |->
        dataset[perm[(k - 1) * batch_size + i]]]]

\* ------------------------------------------------------------ evaluation
\* A sample is [out |-> log-probabilities the model computes for it (as
\* non-positive multiples of 2^-FracBits), target |-> its label].

\* output.max(1)[1]: index of the first maximal log-probability
ArgMax(out) ==
  CHOOSE i \in DOMAIN out :
    /\ \A j \in DOMAIN out : out[j] <= out[i]
    /\ \A j \in DOMAIN out : j < i => out[j] < out[i]

\* F.nll_loss(output, target, reduction='sum'): binary32 sum over the batch
\* (the sum of the first k samples' losses)
RECURSIVE nll_loss_sum_to(_, _)
nll_loss_sum_to(batch, k) ==
  IF k = 0 THEN 0
  ELSE FAdd(SingleBits, nll_loss_sum_to(batch, k - 1),
            0 - batch[k].out[batch[k].target])

nll_loss_sum(batch) == nll_loss_sum_to(batch, Len(batch))

\* mutant: only the first prediction of the batch is compared
NumEq_firstOnly(batch) ==
  IF batch = <<>> THEN 0
  ELSE IF ArgMax(batch[1].out) = batch[1].target THEN 1 ELSE 0

\* pred.eq(target.view_as(pred)).sum().item()
NumEq(batch) ==
  Cardinality({i \in DOMAIN batch : ArgMax(batch[i].out) = batch[i].target})

\* mutant: correct = ... instead of correct += ...
RECURSIVE TestLoop_overwrite(_, _)
TestLoop_overwrite(batches, k) ==
  IF k = 0 THEN [test_loss |-> 0, correct |-> 0]
  ELSE LET prev == TestLoop_overwrite(batches, k - 1)
       IN  [test_loss |->
              FAdd(DoubleBits, prev.test_loss, nll_loss_sum(batches[k])),
            correct |-> NumEq(batches[k])]

\* the loop of test(): test_loss and correct after the first k batches
RECURSIVE TestLoop(_, _)
TestLoop(batches, k) ==
  IF k = 0 THEN [test_loss |-> 0, correct |-> 0]
  ELSE LET prev == TestLoop(batches, k - 1)
       IN  [test_loss |->
              FAdd(DoubleBits, prev.test_loss, nll_loss_sum(batches[k])),
            correct |-> prev.correct + NumEq(batches[k])]

\* 100. * correct / n; the product is exact in binary64
Percent(correct, n) == FDiv(DoubleBits, 100 * Unit * correct, n)

\* test(params, test_loader) for a loader that yields `batches` over a
\* dataset of n samples
test(batches, n) ==
  LET acc == TestLoop(batches, Len(batches))
  IN  [num_correct |-> acc.correct,
       test_loss |-> FDiv(DoubleBits, acc.test_loss, n),
       testerror |-> Percent(acc.correct, n)]

\* ------------------------------------------------------ model under test
\* SparseMNISTNet is held by two weights, one inside the sparse mask and
\* one outside it, a learning-iteration counter, an epoch counter and the
\* training / inference mode flag.
WeightIdx == {1, 2}
SparseMask == {1}
WeightVals == {0, 1}

\* SparseMNISTNet.rezeroWeights: weights outside the mask are set to zero
rezeroWeights(w) == [i \in DOMAIN w |-> IF i \in SparseMask THEN w[i] ELSE 0]

\* SparseMNISTNet.forward on a batch of n samples: the learning-iteration
\* count grows in training mode only
ModelForward(m, li, n) == IF m = "train" THEN li + n ELSE li

\* SparseMNISTNet.postEpoch: epoch-boundary bookkeeping
postEpoch(e) == e + 1

\* the clean MNIST test set of the sweep (targets), and the outputs the
\* model can give for one of its (noisy) samples
MNISTTestTargets == <<1>>
SweepOutputs == {<<0, 0 - Unit>>, <<0 - Unit, 0>>}

NoiseLevels ==
  <<"0.0", "0.05", "0.1", "0.15", "0.2", "0.25", "0.3", "0.35", "0.4",
    "0.45", "0.5">>

\* the outputs the unchanged model can give for a sample of a test loader
Half == Pow2(SingleBits - 1)
TestOutputs ==
  {<<0 - (Half + 1) * Unit, 0 - Unit>>,
   <<0 - Half * Unit, 0 - Half * Unit>>}
TestSamples == [out : TestOutputs, target : {1, 2}]

\* dict.update
DictUpdate(d, e) ==
  [k \in (DOMAIN d) \cup (DOMAIN e) |-> IF k \in DOMAIN e THEN e[k] ELSE d[k]]

EmptyDict == [k \in {} |-> 0]

VARIABLES
  pc,                 \* position of the control flow
  params,             \* the experiment parameters given to reset
  trainSize,          \* len(self.train_loader.dataset)
  now, startTime,     \* time.time(), self.startTime
  mode,               \* self.model.training: "train" or "eval"
  weights,            \* the model's weights
  learningIterations, \* self.model.learningIterations
  epochsDone,         \* the model's epoch bookkeeping (postEpoch)
  nextIter,           \* the harness: index of the next iterate call
  iteration,          \* iterate's argument
  batch_idx,          \* train's loop index
  artifacts,          \* figure files written: <<epoch, learningIterations>>
  noise_idx,          \* runNoiseTests' loop position in NoiseLevels
  total_correct,      \* runNoiseTests' accumulator
  sweepRet,           \* runNoiseTests' ret
  ret,                \* iterate's ret
  results,            \* what iterate returned, call by call
  saved,              \* what finalize wrote to model.pt
  calls,              \* history: hook calls made in the current iterate
  optSteps,           \* history: optimizer steps made since reset
  atSweep,            \* history: the model when the sweep began
  test_loader,        \* evaluation alone: the loader handed to test
  order1, sameOrder,  \* evaluation alone: the sampler's orders
  r1, r2              \* evaluation alone: results of two calls of test

vars ==
  <<pc, params, trainSize, now, startTime, mode, weights,
    learningIterations, epochsDone, nextIter, iteration, batch_idx,
    artifacts, noise_idx, total_correct, sweepRet, ret, results, saved,
    calls, optSteps, atSweep, test_loader, order1, sameOrder, r1, r2>>

modelVars == <<mode, weights, learningIterations, epochsDone>>
testVars == <<test_loader, order1, sameOrder, r1, r2>>
loopVars == <<batch_idx, noise_idx, total_correct, sweepRet>>
histVars == <<optSteps>>

NoCalls == [train |-> 0, step |-> 0, rezero |-> 0, postEpoch |-> 0,
            test |-> 0, sweep |-> 0]

ModelState == [mode |-> mode, weights |-> weights,
               learningIterations |-> learningIterations,
               epochsDone |-> epochsDone, calls |-> calls]

NoLoader == [dataset |-> <<>>, batch_size |-> 1]
NoResult == [num_correct |-> 0, test_loss |-> 0, testerror |-> 0]

\* the batch sizes are one sample, so that the number of training batches
\* is the size of the training set
ParamSpace ==
  [iterations : 1..MaxIterations, log_interval : 1..MaxLogInterval,
   batch_size : {1}, test_batch_size : {1}]

LifeInit ==
  /\ params = [iterations |-> 1, log_interval |-> 1, batch_size |-> 1,
               test_batch_size |-> 1]
  /\ trainSize = 0
  /\ now = 0 /\ startTime = 0
  /\ mode = "train"
  /\ weights = [i \in WeightIdx |-> 0]
  /\ learningIterations = 0
  /\ epochsDone = 0
  /\ nextIter = 0 /\ iteration = 0 /\ batch_idx = 0
  /\ artifacts = <<>>
  /\ noise_idx = 1 /\ total_correct = 0
  /\ sweepRet = EmptyDict /\ ret = EmptyDict
  /\ results = <<>>
  /\ saved = [written |-> FALSE, weights |-> [i \in WeightIdx |-> 0]]
  /\ calls = NoCalls
  /\ optSteps = 0
  /\ atSweep = [mode |-> "train", weights |-> [i \in WeightIdx |-> 0],
                learningIterations |-> 0, epochsDone |-> 0,
                calls |-> NoCalls]

Init ==
  /\ pc = "start"
  /\ LifeInit
  /\ test_loader = NoLoader /\ order1 = <<>> /\ sameOrder = FALSE
  /\ r1 = NoResult /\ r2 = NoResult

\* ---------------------------------------------------------------- reset
Reset ==
  /\ pc = "start"
  /\ \E p \in ParamSpace : params' = p
  /\ \E n \in 0..MaxTrainSize : trainSize' = n
  /\ startTime' = now
  /\ mode' = "train"
  /\ \E w \in [WeightIdx -> WeightVals] : weights' = w
  /\ learningIterations' = 0
  /\ epochsDone' = 0
  /\ pc' = "ready"
  /\ UNCHANGED <<now, nextIter, iteration, artifacts, ret, results, saved,
                 calls, atSweep>>
  /\ UNCHANGED loopVars
  /\ UNCHANGED histVars
  /\ UNCHANGED testVars

\* -------------------------------------------------------------- harness
HarnessCallsIterate == pc = "ready" /\ nextIter < params.iterations
HarnessCallsFinalize == pc = "ready" /\ nextIter = params.iterations

\* -------------------------------------------------------------- iterate
IterateBegin ==
  /\ HarnessCallsIterate
  /\ iteration' = nextIter
  /\ ret' = EmptyDict
  /\ calls' = NoCalls
  /\ pc' = "train"
  /\ UNCHANGED <<params, trainSize, now, startTime, nextIter, artifacts,
                 results, saved, atSweep>>
  /\ UNCHANGED modelVars
  /\ UNCHANGED loopVars
  /\ UNCHANGED histVars
  /\ UNCHANGED testVars

\* ---------------------------------------------------------------- train
TrainBatches == NumBatches(trainSize, params.batch_size)

TrainBegin ==
  /\ pc = "train"
  /\ mode' = "train"
  /\ batch_idx' = 0
  /\ calls' = [calls EXCEPT !.train = @ + 1]
  /\ pc' = "for"
  /\ UNCHANGED <<params, trainSize, now, startTime, weights,
                 learningIterations, epochsDone, nextIter, iteration,
                 artifacts, noise_idx, total_correct, sweepRet, ret,
                 results, saved, atSweep>>
  /\ UNCHANGED histVars
  /\ UNCHANGED testVars

\* zero_grad, forward pass, loss, backward pass of one batch
TrainForward ==
  /\ pc = "for"
  /\ batch_idx < TrainBatches
  /\ learningIterations' =
       ModelForward(mode, learningIterations,
                    BatchLen(trainSize, params.batch_size, batch_idx + 1))
  /\ now' = now + 1
  /\ pc' = "step"
  /\ UNCHANGED <<params, trainSize, startTime, mode, weights, epochsDone,
                 nextIter, iteration, artifacts, ret, results, saved,
                 calls, atSweep>>
  /\ UNCHANGED loopVars
  /\ UNCHANGED histVars
  /\ UNCHANGED testVars

\* mutant: the rezeroWeights call left out
AfterOptimizerStep_skipRezero == "log"

\* pc after self.optimizer.step()
AfterOptimizerStep == "rezero"

OptimizerStep ==
  /\ pc = "step"
  /\ \E w \in [WeightIdx -> WeightVals] : weights' = w
  /\ calls' = [calls EXCEPT !.step = @ + 1]
  /\ optSteps' = optSteps + 1
  /\ pc' = AfterOptimizerStep
  /\ UNCHANGED <<params, trainSize, now, startTime, mode,
                 learningIterations, epochsDone, nextIter, iteration,
                 artifacts, ret, results, saved, atSweep>>
  /\ UNCHANGED loopVars
  /\ UNCHANGED testVars

RezeroWeights ==
  /\ pc = "rezero"
  /\ weights' = rezeroWeights(weights)
  /\ calls' = [calls EXCEPT !.rezero = @ + 1]
  /\ pc' = "log"
  /\ UNCHANGED <<params, trainSize, now, startTime, mode,
                 learningIterations, epochsDone, nextIter, iteration,
                 artifacts, ret, results, saved, atSweep>>
  /\ UNCHANGED loopVars
  /\ UNCHANGED histVars
  /\ UNCHANGED testVars

\* mutant: (batch_idx + 1) % params["log_interval"] == 0
IsLogBatch_afterInterval(idx, log_interval) == (idx + 1) % log_interval = 0

\* batch_idx % params["log_interval"] == 0
IsLogBatch(idx, log_interval) == idx % log_interval = 0

\* mutant: self.model.postEpoch() indented into the loop body
LogDutyCycle_postEpoch ==
  /\ pc = "log"
  /\ IF IsLogBatch(batch_idx, params.log_interval)
       THEN artifacts' = Append(artifacts, <<iteration, learningIterations>>)
       ELSE artifacts' = artifacts
  /\ batch_idx' = batch_idx + 1
  /\ epochsDone' = postEpoch(epochsDone)
  /\ calls' = [calls EXCEPT !.postEpoch = @ + 1]
  /\ pc' = "for"
  /\ UNCHANGED <<params, trainSize, now, startTime, nextIter, iteration,
                 noise_idx, total_correct, sweepRet, ret, results, saved,
                 atSweep, mode, weights, learningIterations>>
  /\ UNCHANGED histVars
  /\ UNCHANGED testVars

LogDutyCycle ==
  /\ pc = "log"
  /\ IF IsLogBatch(batch_idx, params.log_interval)
       THEN artifacts' = Append(artifacts, <<iteration, learningIterations>>)
       ELSE artifacts' = artifacts
  /\ batch_idx' = batch_idx + 1
  /\ pc' = "for"
  /\ UNCHANGED <<params, trainSize, now, startTime, nextIter, iteration,
                 noise_idx, total_correct, sweepRet, ret, results, saved,
                 calls, atSweep>>
  /\ UNCHANGED modelVars
  /\ UNCHANGED histVars
  /\ UNCHANGED testVars

\* self.model.postEpoch(), after the loop
PostEpoch ==
  /\ pc = "for"
  /\ batch_idx = TrainBatches
  /\ epochsDone' = postEpoch(epochsDone)
  /\ calls' = [calls EXCEPT !.postEpoch = @ + 1]
  /\ pc' = "trained"
  /\ UNCHANGED <<params, trainSize, now, startTime, mode, weights,
                 learningIterations, nextIter, iteration, artifacts, ret,
                 results, saved, atSweep>>
  /\ UNCHANGED loopVars
  /\ UNCHANGED histVars
  /\ UNCHANGED testVars

\* ------------------------------------------------ iterate, after training
\* mutant: iteration == params["iterations"]
IsLastIteration_never(it, p) == it = p.iterations

\* iteration == params["iterations"] - 1
IsLastIteration(it, p) == it = p.iterations - 1

\* the branch of iterate; entering runNoiseTests sets up its locals
IterateBranch ==
  /\ pc = "trained"
  /\ IF IsLastIteration(iteration, params)
       THEN /\ pc' = "sweep"
            /\ sweepRet' = EmptyDict
            /\ total_correct' = 0
            /\ noise_idx' = 1
            /\ calls' = [calls EXCEPT !.sweep = @ + 1]
            /\ atSweep' = ModelState
       ELSE /\ pc' = "return"
            /\ UNCHANGED <<sweepRet, total_correct, noise_idx, calls,
                           atSweep>>
  /\ UNCHANGED <<params, trainSize, now, startTime, nextIter, iteration,
                 batch_idx, artifacts, ret, results, saved>>
  /\ UNCHANGED modelVars
  /\ UNCHANGED histVars
  /\ UNCHANGED testVars

\* mutant: test() without self.model.eval()
TestMode_train == "train"

\* self.model.eval()
TestMode == "eval"

\* mutant: total_correct = testResult["num_correct"]
AddCorrect_assign(total, n) == n

\* total_correct += testResult["num_correct"]
AddCorrect(total, n) == total + n

\* mutant: the headline taken from the last noise level
HeadlineLevel_last == NoiseLevels[Len(NoiseLevels)]

\* the key of ret[0.0]
HeadlineLevel == NoiseLevels[1]

\* one pass of the loop of runNoiseTests: a fresh loader over the noisy
\* test set, test() on it, the result added and recorded
TestNoise ==
  /\ pc = "sweep"
  /\ noise_idx <= Len(NoiseLevels)
  /\ \E outs \in [DOMAIN MNISTTestTargets -> SweepOutputs],
        perm \in Orders(Len(MNISTTestTargets)) :
       LET dataset == [i \in DOMAIN MNISTTestTargets |->
                         [out |-> outs[i], target |-> MNISTTestTargets[i]]]
           batches == DataLoader(dataset, params.test_batch_size, perm)
           testResult == test(batches, Len(dataset))
       IN  /\ total_correct' = AddCorrect(total_correct, testResult.num_correct)
           /\ sweepRet' = DictUpdate(sweepRet,
                            [k \in {NoiseLevels[noise_idx]} |-> testResult])
           /\ learningIterations' =
                ModelForward(TestMode, learningIterations, Len(dataset))
  /\ mode' = TestMode
  /\ calls' = [calls EXCEPT !.test = @ + 1]
  /\ noise_idx' = noise_idx + 1
  /\ now' = now + 1
  /\ UNCHANGED <<pc, params, trainSize, startTime, weights, epochsDone,
                 nextIter, iteration, batch_idx, artifacts, ret, results,
                 saved, atSweep>>
  /\ UNCHANGED histVars
  /\ UNCHANGED testVars

\* the end of runNoiseTests and iterate's ret.update of what it returns
SweepEnd ==
  /\ pc = "sweep"
  /\ noise_idx > Len(NoiseLevels)
  /\ sweepRet' = DictUpdate(sweepRet,
                   [totalCorrect |-> total_correct,
                    testerror |-> sweepRet[HeadlineLevel].testerror])
  /\ ret' = DictUpdate(ret, sweepRet')
  /\ pc' = "return"
  /\ UNCHANGED <<params, trainSize, now, startTime, nextIter, iteration,
                 batch_idx, artifacts, noise_idx, total_correct, results,
                 saved, calls, atSweep>>
  /\ UNCHANGED modelVars
  /\ UNCHANGED histVars
  /\ UNCHANGED testVars

\* ret.update({"elapsedTime": ...}); return ret
IterateReturn ==
  /\ pc = "return"
  /\ ret' = DictUpdate(ret, [elapsedTime |-> now - startTime])
  /\ results' = Append(results, ret')
  /\ nextIter' = nextIter + 1
  /\ pc' = "ready"
  /\ UNCHANGED <<params, trainSize, now, startTime, iteration, artifacts,
                 saved, calls, atSweep>>
  /\ UNCHANGED modelVars
  /\ UNCHANGED loopVars
  /\ UNCHANGED histVars
  /\ UNCHANGED testVars

\* ------------------------------------------------------------- finalize
Finalize ==
  /\ HarnessCallsFinalize
  /\ saved' = [written |-> TRUE, weights |-> weights]
  /\ pc' = "done"
  /\ UNCHANGED <<params, trainSize, now, startTime, nextIter, iteration,
                 artifacts, ret, results, calls, atSweep>>
  /\ UNCHANGED modelVars
  /\ UNCHANGED loopVars
  /\ UNCHANGED histVars
  /\ UNCHANGED testVars

Next ==
  \/ Reset
  \/ IterateBegin
  \/ TrainBegin
  \/ TrainForward
  \/ OptimizerStep
  \/ RezeroWeights
  \/ LogDutyCycle
  \/ PostEpoch
  \/ IterateBranch
  \/ TestNoise
  \/ SweepEnd
  \/ IterateReturn
  \/ Finalize

Spec == Init /\ [][Next]_vars

\* ------------------------------------------- the evaluation routine alone
\* test() called twice on one loader with the model unchanged
lifeVars ==
  <<params, trainSize, now, startTime, weights, learningIterations,
    epochsDone, nextIter, iteration, batch_idx, artifacts, noise_idx,
    total_correct, sweepRet, ret, results, saved, calls, optSteps,
    atSweep>>

Datasets ==
  UNION {[1..n -> TestSamples] : n \in 1..MaxTestSize}

InitTest ==
  /\ pc = "t_start"
  /\ LifeInit
  /\ \E d \in Datasets, b \in 1..MaxTestSize - 1 :
       test_loader = [dataset |-> d, batch_size |-> b]
  /\ order1 = <<>> /\ sameOrder = FALSE
  /\ r1 = NoResult /\ r2 = NoResult

TestFirst ==
  /\ pc = "t_start"
  /\ \E perm \in Orders(Len(test_loader.dataset)) :
       /\ order1' = perm
       /\ r1' = test(DataLoader(test_loader.dataset, test_loader.batch_size,
                                perm),
                     Len(test_loader.dataset))
  /\ mode' = TestMode
  /\ pc' = "t_once"
  /\ UNCHANGED <<test_loader, sameOrder, r2>>
  /\ UNCHANGED lifeVars

TestSecond ==
  /\ pc = "t_once"
  /\ \E perm \in Orders(Len(test_loader.dataset)) :
       /\ sameOrder' = (perm = order1)
       /\ r2' = test(DataLoader(test_loader.dataset, test_loader.batch_size,
                                perm),
                     Len(test_loader.dataset))
  /\ mode' = TestMode
  /\ pc' = "t_twice"
  /\ UNCHANGED <<test_loader, order1, r1>>
  /\ UNCHANGED lifeVars

NextTest ==
  \/ TestFirst
  \/ TestSecond

SpecTest == InitTest /\ [][NextTest]_vars

\* ================================================================ claims
ResultKeys == {"num_correct", "test_loss", "testerror"}
LevelKeys == {NoiseLevels[k] : k \in DOMAIN NoiseLevels}
FinalKeys == LevelKeys \cup {"totalCorrect", "testerror", "elapsedTime"}

RECURSIVE SumCorrect(_, _)
SumCorrect(d, k) ==
  IF k = 0 THEN 0 ELSE SumCorrect(d, k - 1) + d[NoiseLevels[k]].num_correct

SweepReturned == pc = "return" /\ calls.sweep = 1

OffMaskZero(w) == \A i \in WeightIdx \ SparseMask : w[i] = 0

ArtifactsOf(epoch) ==
  Cardinality({i \in DOMAIN artifacts : artifacts[i][1] = epoch})

\* C1: what runNoiseTests returns holds the 11 noise-level keys, each level
\* was evaluated exactly once, and totalCorrect is the sum of the 11
\* num_correct values recorded under those keys.
C1_TotalCorrectIsSum ==
  SweepReturned =>
    /\ LevelKeys \subseteq DOMAIN sweepRet
    /\ Cardinality(LevelKeys) = 11
    /\ calls.test = 11
    /\ sweepRet["totalCorrect"] = SumCorrect(sweepRet, 11)

C1_Witness ==
  /\ SweepReturned
  /\ sweepRet["totalCorrect"] = 5
  /\ sweepRet["0.0"].num_correct = 0
  /\ sweepRet["0.5"].num_correct = 1

\* C2: in every result iterate returned with a testerror, testerror is the
\* testerror recorded under the noise level 0.0, whatever the other levels
\* recorded.
C2_HeadlineIsCleanTesterror ==
  \A i \in DOMAIN results :
    "testerror" \in DOMAIN results[i] =>
      results[i]["testerror"] = results[i]["0.0"].testerror

C2_Witness ==
  /\ pc = "ready"
  /\ Len(results) = params.iterations
  /\ results[Len(results)]["0.0"].testerror = 0
  /\ results[Len(results)]["0.05"].testerror # 0
  /\ results[Len(results)]["0.5"].testerror # 0

\* C3: iterate is called with 0, 1, ... in order; every call trains one
\* epoch and returns elapsedTime; the sweep runs once, in the last call and
\* after its training epoch; the last result holds elapsedTime,
\* totalCorrect, testerror and the 11 noise-level results, the earlier
\* results hold elapsedTime only.
C3_SweepOnlyInLastCall ==
  /\ \A i \in DOMAIN results :
       /\ DOMAIN results[i] =
            (IF i = params.iterations THEN FinalKeys ELSE {"elapsedTime"})
       /\ i = params.iterations =>
            \A l \in LevelKeys : DOMAIN results[i][l] = ResultKeys
  /\ pc \in {"ready", "done"} => Len(results) = nextIter
  /\ pc \in {"train", "for", "step", "rezero", "log", "trained", "sweep",
             "return"} => iteration = Len(results)
  /\ pc = "sweep" =>
       /\ IsLastIteration(iteration, params)
       /\ iteration = params.iterations - 1
       /\ calls.train = 1 /\ calls.postEpoch = 1 /\ calls.sweep = 1
  /\ pc = "return" =>
       /\ calls.train = 1
       /\ calls.sweep = (IF iteration = params.iterations - 1 THEN 1 ELSE 0)
       /\ calls.test = 11 * calls.sweep
  /\ pc = "done" => Len(results) = params.iterations

C3_Witness ==
  /\ pc = "done"
  /\ params.iterations = 2
  /\ DOMAIN results[1] = {"elapsedTime"}
  /\ "totalCorrect" \in DOMAIN results[2]

\* C4: every optimizer step is followed by rezeroWeights before anything
\* else uses the model, so once an optimizer step was made the weights
\* outside the sparse mask are zero in every state but the one between the
\* step and its rezeroWeights call; the saved model has them zero too.
C4_OffMaskZeroAfterStep ==
  /\ calls.step = calls.rezero + (IF pc = "rezero" THEN 1 ELSE 0)
  /\ (optSteps > 0 /\ pc # "rezero") => OffMaskZero(weights)
  /\ (optSteps > 0 /\ saved.written) => OffMaskZero(saved.weights)

C4_Witness ==
  /\ pc = "log"
  /\ optSteps = 2
  /\ weights[1] = 1
  /\ OffMaskZero(weights)

\* C5 as stated: if log_interval exceeds the number of batches of the
\* epoch, no figure is written in that epoch's training loop.
C5_NoArtifactWhenIntervalLarge ==
  (pc = "trained" /\ params.log_interval > TrainBatches) =>
    ArtifactsOf(iteration) = 0

\* C5 amended: if log_interval exceeds the number of batches of the epoch,
\* exactly one figure is written in that epoch's training loop (for batch
\* index 0) when the epoch has at least one batch, and none when the
\* training loader yields no batch.
C5_OneArtifactWhenIntervalLarge ==
  (pc = "trained" /\ params.log_interval > TrainBatches) =>
    ArtifactsOf(iteration) = (IF TrainBatches = 0 THEN 0 ELSE 1)

C5_Witness ==
  /\ pc = "trained"
  /\ TrainBatches = 1
  /\ params.log_interval = 2
  /\ ArtifactsOf(iteration) = 1

\* C6 as stated: two calls of test on one loader with the model unchanged
\* return the same num_correct and the same test_loss, also when the
\* second call gets the samples in another batch order.
C6_TestIdempotent ==
  pc = "t_twice" =>
    /\ r1.num_correct = r2.num_correct
    /\ r1.test_loss = r2.test_loss

\* C6 amended: two calls of test on one loader delivering the same samples,
\* with the model unchanged, return the same num_correct in whatever batch
\* order the samples are delivered, and the same test_loss when the second
\* call delivers them in the same batch order.
C6_TestIdempotentSameOrder ==
  pc = "t_twice" =>
    /\ r1.num_correct = r2.num_correct
    /\ r1.testerror = r2.testerror
    /\ sameOrder => r1.test_loss = r2.test_loss

C6_Witness ==
  /\ pc = "t_twice"
  /\ ~sameOrder
  /\ Len(test_loader.dataset) = 3
  /\ test_loader.batch_size = 2
  /\ r2.num_correct = 2

\* C7: the testerror of the final result is the percentage of the clean
\* (noise level 0.0) test samples the model classifies incorrectly: 0 when
\* all are classified correctly, 100 when none is.
C7_TesterrorIsErrorPercentage ==
  \A i \in DOMAIN results :
    "testerror" \in DOMAIN results[i] =>
      results[i]["testerror"] =
        Percent(Len(MNISTTestTargets) - results[i]["0.0"].num_correct,
                Len(MNISTTestTargets))

\* how often the sampler's batches hold dataset index i
Visits(idx, i) ==
  LET pos == UNION {{<<k, j>> : j \in DOMAIN idx[k]} : k \in DOMAIN idx}
  IN  Cardinality({p \in pos : idx[p[1]][p[2]] = i})

\* C8: for any loader and batch size, also with a short last batch, test
\* visits every sample exactly once and num_correct is the number of
\* samples whose first maximal output is at the label; so it lies between
\* 0 and the number of samples.
C8_NumCorrectCountsTop1 ==
  pc \in {"t_once", "t_twice"} =>
    LET d == test_loader.dataset
        idx == BatchSampler(Len(d), test_loader.batch_size, order1)
    IN  /\ \A i \in DOMAIN d : Visits(idx, i) = 1
        /\ r1.num_correct =
             Cardinality({i \in DOMAIN d :
                /\ \A j \in DOMAIN d[i].out : d[i].out[j] <= d[i].out[d[i].target]
                /\ \A j \in DOMAIN d[i].out :
                     j < d[i].target => d[i].out[j] < d[i].out[d[i].target]})
        /\ 0 <= r1.num_correct /\ r1.num_correct <= Len(d)

C8_Witness ==
  /\ pc = "t_once"
  /\ Len(test_loader.dataset) = 3
  /\ test_loader.batch_size = 2
  /\ r1.num_correct = 2

\* C9 as stated: after the sweep the model's weights, bookkeeping counters
\* and training / inference mode are what they were when it began, and no
\* optimizer step, rezeroWeights or postEpoch call was made during it.
C9_SweepLeavesModelUnchanged ==
  SweepReturned =>
    /\ weights = atSweep.weights
    /\ learningIterations = atSweep.learningIterations
    /\ epochsDone = atSweep.epochsDone
    /\ calls.step = atSweep.calls.step
    /\ calls.rezero = atSweep.calls.rezero
    /\ calls.postEpoch = atSweep.calls.postEpoch
    /\ mode = atSweep.mode

\* C9 amended: during and after the sweep the model's weights and
\* bookkeeping counters are what they were when it began and no optimizer
\* step, rezeroWeights or postEpoch call is made; the mode, which is
\* training when the sweep begins, is inference from the first evaluation
\* on and stays so after the sweep.
C9_SweepLeavesWeightsAndCounters ==
  (pc \in {"sweep", "return"} /\ calls.sweep = 1) =>
    /\ weights = atSweep.weights
    /\ learningIterations = atSweep.learningIterations
    /\ epochsDone = atSweep.epochsDone
    /\ calls.step = atSweep.calls.step
    /\ calls.rezero = atSweep.calls.rezero
    /\ calls.postEpoch = atSweep.calls.postEpoch
    /\ atSweep.mode = "train"
    /\ mode = (IF calls.test > 0 THEN "eval" ELSE "train")

C9_Witness ==
  /\ SweepReturned
  /\ learningIterations = 2
  /\ weights[1] = 1
  /\ mode = "eval"

\* C10: in every epoch postEpoch is called exactly once: not while the
\* loop over the batches runs, then once after the last batch's optimizer
\* step and rezeroWeights call (also when there is no batch) and before
\* any evaluation of that iteration.
C10_PostEpochOncePerEpoch ==
  /\ pc \in {"train", "for", "step", "rezero", "log"} =>
       /\ calls.postEpoch = 0
       /\ calls.test = 0
       /\ epochsDone = iteration
  /\ pc \in {"trained", "sweep", "return"} =>
       /\ calls.postEpoch = 1
       /\ calls.step = TrainBatches
       /\ calls.rezero = TrainBatches
       /\ epochsDone = iteration + 1
  /\ pc = "trained" => calls.test = 0
  /\ pc \in {"ready", "done"} => epochsDone = nextIter

C10_Witness ==
  /\ pc = "sweep"
  /\ calls.test = 3
  /\ TrainBatches = 2
  /\ calls.postEpoch = 1

C10_WitnessEmptyLoader ==
  /\ pc = "trained"
  /\ TrainBatches = 0
  /\ calls.postEpoch = 1

====
